---- MODULE Spec2Model ----
(***************************************************************************)
(* Mini Car Racing (src/script.js): the simulation loop, the three         *)
(* buttons, the key handlers, the frame callbacks and the deferred crash   *)
(* notification.                                                           *)
(*                                                                         *)
(* Numbers.  The script computes with doubles; the model computes with     *)
(* integers in fixed units, chosen so that every product the script forms  *)
(* for an integer dt is exact:                                             *)
(*   x, vx, w        1/XU of a pixel      (0.8 is 800)                     *)
(*   speed           1/SPU of a unit      (0.001 * dt is dt)               *)
(*   y, h            1/YU of a pixel      (speed * speedFactor * dt / 16)  *)
(*   score           1/SU of a point      (speed * 0.02 * dt / 16)         *)
(*   speedFactor     tenths                                               *)
(* The one inexact step is the friction product vx * 0.8, which is cut to  *)
(* 1/XU toward zero.                                                       *)
(***************************************************************************)
EXTENDS Integers, Sequences, FiniteSets

\* ------------------------------------------------------------------ units
XU == 1000
SPU == 1000
YU == 160000
SU == 800000

\* ------------------------------------------------------- game constants
GAME_WIDTH == 480
GAME_HEIGHT == 720
LANE_COUNT == 3
LANE_WIDTH == GAME_WIDTH \div LANE_COUNT
PLAYER_WIDTH == 48
PLAYER_HEIGHT == 80
OBSTACLE_WIDTH == 48
OBSTACLE_HEIGHT == 80

\* ------------------------------------------------------------- bounds
\* a tick is taken only while score is below MaxScore points
MaxScore == 265
\* a tick that would spawn into a full obstacle array is not taken
MaxObstacles == 2
\* pending requestAnimationFrame callbacks
MaxFrames == 2
\* pending setTimeout callbacks
MaxTimers == 2
\* frame callbacks that can run before a pending 10 ms timeout fires
MaxTimerLag == 1
\* points a run reaches in the specifications SpecSkew and SpecLive
ShortScore == 40
\* points a run reaches in the specification SpecLong
LongScore == 1450
\* largest coordinate and largest width or height of the rectangles handed
\* to collides in the specification SpecCollide
MaxCoord == 3
MaxSize == 2

\* delta-times the stepper hands to update: now - lastTime, at most 40
DTs == {0, 40}
\* now - lastTime of the first frame after restartGame, when the frame's
\* timestamp (taken at the start of the frame) is older than the
\* performance.now() the handler stored in lastTime
SkewDTs == {-8}
\* randInt(0,80) of spawnObstacle
YOffsets == {80}
\* 0.9 + Math.random()*0.6 of spawnObstacle, in tenths
SpeedFactors == {9, 14}
Lanes == 0 .. (LANE_COUNT - 1)
KeyNames == {"left", "right", "up", "down"}

\* running .. obstacles: the script's state.  frames: the pending
\* requestAnimationFrame(loop) callbacks.  timers: the pending setTimeout
\* callbacks, oldest first.  last, lastDt, lastPassed: history of the latest
\* step (the handler that ran, the dt of its update, the obstacles its update
\* spliced out) and restarted (restartGame has run since spawnInterval was
\* last assigned); they are read by the properties only.  probe: the two
\* rectangles and the two results of a direct call of collides.
VARIABLES running, paused, spawnTimer, spawnInterval, speed, score,
          keys, player, obstacles, frames, timers, last, lastDt, lastPassed,
          restarted, probe

vars == <<running, paused, spawnTimer, spawnInterval, speed, score,
          keys, player, obstacles, frames, timers, last, lastDt, lastPassed,
          restarted, probe>>

sim == <<spawnTimer, spawnInterval, speed, score, player, obstacles>>

\* ------------------------------------------------------------ helpers
Min(a, b) == IF a < b THEN a ELSE b
Max(a, b) == IF a > b THEN a ELSE b
Abs(a) == IF a < 0 THEN -a ELSE a

\* Math.floor(score/100) for a non-negative or negative score
FloorDiv(a, b) == IF a >= 0 THEN a \div b ELSE -((-a + b - 1) \div b)

\* vx * 0.8, cut toward zero
Friction(v) == IF v >= 0 THEN (v * 8) \div 10 ELSE -(((-v) * 8) \div 10)

laneToX(lane) == (lane * LANE_WIDTH + (LANE_WIDTH - PLAYER_WIDTH) \div 2) * XU

\* collides with touching left and right edges counted as apart
collides_halfOpen(a, b) ==
    ~(a.x + a.w <= b.x \/ a.x > b.x + b.w \/ a.y + a.h < b.y \/ a.y > b.y + b.h)

\* lines 138-140
collides(a, b) ==
    ~(a.x + a.w < b.x \/ a.x > b.x + b.w \/ a.y + a.h < b.y \/ a.y > b.y + b.h)

RemoveAt(s, i) == [j \in 1 .. (Len(s) - 1) |-> IF j < i THEN s[j] ELSE s[j + 1]]

\* the object pushed by spawnObstacle
NewObstacle(lane, yoff, sf) ==
    [x |-> laneToX(lane), y |-> (-OBSTACLE_HEIGHT - yoff) * YU,
     w |-> OBSTACLE_WIDTH * XU, h |-> OBSTACLE_HEIGHT * YU,
     lane |-> lane, speedFactor |-> sf]

InitPlayer ==
    [lane |-> 1, x |-> laneToX(1), y |-> (GAME_HEIGHT - PLAYER_HEIGHT - 24) * YU,
     w |-> PLAYER_WIDTH * XU, h |-> PLAYER_HEIGHT * YU, vx |-> 0, maxSteer |-> 8 * XU]

InitGame ==
    /\ running = FALSE
    /\ paused = FALSE
    /\ spawnTimer = 0
    /\ spawnInterval = 1200
    /\ speed = 4 * SPU
    /\ score = 0
    /\ keys = [k \in KeyNames |-> FALSE]
    /\ player = InitPlayer
    /\ obstacles = <<>>
    /\ frames = 0
    /\ timers = <<>>
    /\ last = "init"
    /\ lastDt = 0
    /\ lastPassed = 0
    /\ restarted = FALSE

Init == InitGame /\ probe = <<>>

\* ------------------------------------------------------ update pieces
\* lines 157-165
Steer(k, p) ==
    IF k.left THEN Max(p.vx - 800, -p.maxSteer)
    ELSE IF k.right THEN Min(p.vx + 800, p.maxSteer)
    ELSE LET v == Friction(p.vx) IN IF Abs(v) < 200 THEN 0 ELSE v

\* ClampX without the lower bound of line 170
ClampX_noMin(x) ==
    LET maxX == (GAME_WIDTH - PLAYER_WIDTH - 6) * XU
    IN IF x > maxX THEN maxX ELSE x

\* lines 168-171
ClampX(x) ==
    LET minX == 6 * XU
        maxX == (GAME_WIDTH - PLAYER_WIDTH - 6) * XU
        x1 == IF x < minX THEN minX ELSE x
    IN IF x1 > maxX THEN maxX ELSE x1

\* SpeedControl with a passive decay per frame instead of per millisecond
SpeedControl_frameDecay(k, s, dt) ==
    LET s1 == IF k.up THEN Min(14 * SPU, s + 20 * dt) ELSE s
        s2 == IF k.down THEN Max(2 * SPU, s1 - 30 * dt) ELSE s1
    IN Max(2 * SPU, s2 - 16)

\* SpeedControl without the Math.min(14, .) of line 174
SpeedControl_noMax(k, s, dt) ==
    LET s1 == IF k.up THEN s + 20 * dt ELSE s
        s2 == IF k.down THEN Max(2 * SPU, s1 - 30 * dt) ELSE s1
    IN Max(2 * SPU, s2 - dt)

\* lines 174-177
SpeedControl(k, s, dt) ==
    LET s1 == IF k.up THEN Min(14 * SPU, s + 20 * dt) ELSE s
        s2 == IF k.down THEN Max(2 * SPU, s1 - 30 * dt) ELSE s1
    IN Max(2 * SPU, s2 - dt)

pboxOf(p) == [x |-> p.x, y |-> p.y, w |-> p.w, h |-> p.h]

\* the pass with the collision test of line 190 made on the obstacle as it
\* was before line 182 moved it
RECURSIVE ObstaclePass_staleCheck(_, _, _, _, _, _)
ObstaclePass_staleCheck(i, obs, sc, p, spd, dt) ==
    IF i = 0 THEN [obstacles |-> obs, score |-> sc, crashed |-> FALSE, passed |-> 0]
    ELSE LET ob == [obs[i] EXCEPT !.y = @ + spd * obs[i].speedFactor * dt]
             gone == ob.y > (GAME_HEIGHT + 50) * YU
             obs1 == IF gone THEN RemoveAt(obs, i) ELSE [obs EXCEPT ![i] = ob]
             sc1 == IF gone THEN sc + 10 * SU ELSE sc
             n == IF gone THEN 1 ELSE 0
         IN IF collides(pboxOf(p), obs[i])
            THEN [obstacles |-> obs1, score |-> sc1, crashed |-> TRUE, passed |-> n]
            ELSE LET rest == ObstaclePass_staleCheck(i - 1, obs1, sc1, p, spd, dt)
                 IN [rest EXCEPT !.passed = @ + n]

\* the pass run forward, for (i = 0; i < obstacles.length; ++i): after a
\* splice the next obstacle slides into slot i and is stepped over
RECURSIVE ForwardPass(_, _, _, _, _, _)
ForwardPass(k, obs, sc, p, spd, dt) ==
    IF k > Len(obs) THEN [obstacles |-> obs, score |-> sc, crashed |-> FALSE, passed |-> 0]
    ELSE LET ob == [obs[k] EXCEPT !.y = @ + spd * obs[k].speedFactor * dt]
             gone == ob.y > (GAME_HEIGHT + 50) * YU
             obs1 == IF gone THEN RemoveAt(obs, k) ELSE [obs EXCEPT ![k] = ob]
             sc1 == IF gone THEN sc + 10 * SU ELSE sc
             n == IF gone THEN 1 ELSE 0
         IN IF collides(pboxOf(p), ob)
            THEN [obstacles |-> obs1, score |-> sc1, crashed |-> TRUE, passed |-> n]
            ELSE LET rest == ForwardPass(k + 1, obs1, sc1, p, spd, dt)
                 IN [rest EXCEPT !.passed = @ + n]

ObstaclePass_forward(i, obs, sc, p, spd, dt) == ForwardPass(1, obs, sc, p, spd, dt)

\* lines 180-199: the reverse pass over obstacles[i-1] .. obstacles[0];
\* n counts the splices
RECURSIVE ObstaclePass(_, _, _, _, _, _)
ObstaclePass(i, obs, sc, p, spd, dt) ==
    IF i = 0 THEN [obstacles |-> obs, score |-> sc, crashed |-> FALSE, passed |-> 0]
    ELSE LET ob == [obs[i] EXCEPT !.y = @ + spd * obs[i].speedFactor * dt]
             gone == ob.y > (GAME_HEIGHT + 50) * YU
             obs1 == IF gone THEN RemoveAt(obs, i) ELSE [obs EXCEPT ![i] = ob]
             sc1 == IF gone THEN sc + 10 * SU ELSE sc
             n == IF gone THEN 1 ELSE 0
         IN IF collides(pboxOf(p), ob)
            THEN [obstacles |-> obs1, score |-> sc1, crashed |-> TRUE, passed |-> n]
            ELSE LET rest == ObstaclePass(i - 1, obs1, sc1, p, spd, dt)
                 IN [rest EXCEPT !.passed = @ + n]

\* NextInterval without the Math.max(650, .)
NextInterval_noFloor(sc) == 1200 - FloorDiv(sc, 100 * SU) * 40

\* line 205
NextInterval(sc) == Max(650, 1200 - FloorDiv(sc, 100 * SU) * 40)

\* the closure handed to setTimeout at line 193; crashScore records
\* Math.floor(score) at the crash, age the frame callbacks run since
NewTimer(sc) == [crashScore |-> FloorDiv(sc, SU), age |-> 0]

Aged(ts) == [j \in 1 .. Len(ts) |-> [ts[j] EXCEPT !.age = @ + 1]]

\* game over without the return of line 197: the spawn timer and the
\* gradual score of lines 202 and 210 still run
GameOver_noReturn(r, spd, dt) ==
    /\ Len(timers) < MaxTimers
    /\ running' = FALSE
    /\ timers' = Append(Aged(timers), NewTimer(r.score))
    /\ obstacles' = r.obstacles
    /\ score' = r.score + spd * dt
    /\ spawnTimer' = spawnTimer + dt
    /\ UNCHANGED <<spawnInterval, restarted>>
    /\ last' = "crash"

\* lines 190-198: game over; the tick returns before the spawn logic
GameOver(r, spd, dt) ==
    /\ Len(timers) < MaxTimers
    /\ running' = FALSE
    /\ timers' = Append(Aged(timers), NewTimer(r.score))
    /\ obstacles' = r.obstacles
    /\ score' = r.score
    /\ UNCHANGED <<spawnTimer, spawnInterval, restarted>>
    /\ last' = "crash"

\* lines 201-210: spawn logic and gradual score
SpawnAndScore(r, spd, dt) ==
    /\ running' = running
    /\ timers' = Aged(timers)
    /\ IF spawnTimer + dt > spawnInterval
       THEN /\ Len(r.obstacles) < MaxObstacles
            /\ spawnTimer' = 0
            /\ spawnInterval' = NextInterval(r.score)
            /\ restarted' = FALSE
            /\ \E lane \in Lanes, yoff \in YOffsets, sf \in SpeedFactors :
                  obstacles' = Append(r.obstacles, NewObstacle(lane, yoff, sf))
       ELSE /\ spawnTimer' = spawnTimer + dt
            /\ spawnInterval' = spawnInterval
            /\ obstacles' = r.obstacles
            /\ restarted' = restarted
    /\ score' = r.score + spd * dt
    /\ last' = "tick"

\* function update(dt), lines 155-214
Update(dt) ==
    LET vx1 == Steer(keys, player)
        p1 == [player EXCEPT !.vx = vx1, !.x = ClampX(player.x + vx1)]
        spd == SpeedControl(keys, speed, dt)
        r == ObstaclePass(Len(obstacles), obstacles, score, p1, spd, dt)
    IN /\ player' = p1
       /\ speed' = spd
       /\ lastDt' = dt
       /\ lastPassed' = r.passed
       /\ probe' = probe
       /\ IF r.crashed THEN GameOver(r, spd, dt) ELSE SpawnAndScore(r, spd, dt)

\* ------------------------------------------------------------ actions
\* history of a step that runs no update
Note(op) ==
    /\ last' = op
    /\ lastDt' = 0
    /\ lastPassed' = 0
    /\ restarted' = (restarted \/ op \in {"restart", "timer"})
    /\ probe' = probe

\* a click schedules a frame callback only while one can be held besides
\* those the pending timeouts will schedule
FrameSlotFree == frames + Len(timers) < MaxFrames

\* Idle: before the first start (a crash leaves running false with its
\* timeout pending until restartGame sets running again)
Idle == ~running /\ timers = <<>>

\* keydown / keyup handlers, lines 82-95.  The keys are pressed and released
\* before the first start and held from then on.
KeyDown(k) ==
    /\ Idle
    /\ ~keys[k]
    /\ keys' = [keys EXCEPT ![k] = TRUE]
    /\ Note("key")
    /\ UNCHANGED <<running, paused, spawnTimer, spawnInterval, speed, score,
                   player, obstacles, frames, timers>>

KeyUp(k) ==
    /\ Idle
    /\ keys[k]
    /\ keys' = [keys EXCEPT ![k] = FALSE]
    /\ Note("key")
    /\ UNCHANGED <<running, paused, spawnTimer, spawnInterval, speed, score,
                   player, obstacles, frames, timers>>

\* function startGame, lines 103-111
startGame ==
    /\ Note("start")
    /\ IF ~running
       THEN /\ FrameSlotFree
            /\ running' = TRUE
            /\ paused' = FALSE
            /\ spawnTimer' = 0
            /\ frames' = frames + 1
            /\ UNCHANGED <<spawnInterval, speed, score, keys, player, obstacles, timers>>
       ELSE UNCHANGED <<running, paused, spawnTimer, spawnInterval, speed, score,
                        keys, player, obstacles, frames, timers>>

\* togglePause without the if(!running) return of line 114
togglePause_noGuard ==
    /\ paused' = ~paused
    /\ IF paused
       THEN /\ FrameSlotFree
            /\ frames' = frames + 1
            /\ Note("resume")
       ELSE /\ frames' = frames
            /\ Note("pause")
    /\ UNCHANGED <<running, spawnTimer, spawnInterval, speed, score,
                   keys, player, obstacles, timers>>

\* function togglePause, lines 113-121
togglePause ==
    IF ~running
    THEN /\ Note("toggle")
         /\ UNCHANGED <<running, paused, spawnTimer, spawnInterval, speed, score,
                        keys, player, obstacles, frames, timers>>
    ELSE /\ paused' = ~paused
         /\ IF paused
            THEN /\ FrameSlotFree
                 /\ frames' = frames + 1
                 /\ Note("resume")
            ELSE /\ frames' = frames
                 /\ Note("pause")
         /\ UNCHANGED <<running, spawnTimer, spawnInterval, speed, score,
                        keys, player, obstacles, timers>>

\* restartGame without the score reset of line 127
RestartBody_keepScore ==
    /\ running' = TRUE
    /\ paused' = FALSE
    /\ obstacles' = <<>>
    /\ score' = score
    /\ speed' = 4 * SPU
    /\ player' = [player EXCEPT !.lane = 1, !.x = laneToX(1)]
    /\ spawnTimer' = 0
    /\ frames' = frames + 1
    /\ UNCHANGED <<spawnInterval, keys>>

\* the body of function restartGame, lines 123-135
RestartBody ==
    /\ running' = TRUE
    /\ paused' = FALSE
    /\ obstacles' = <<>>
    /\ score' = 0
    /\ speed' = 4 * SPU
    /\ player' = [player EXCEPT !.lane = 1, !.x = laneToX(1)]
    /\ spawnTimer' = 0
    /\ frames' = frames + 1
    /\ UNCHANGED <<spawnInterval, keys>>

\* btnRestart click, line 100
restartGame ==
    /\ FrameSlotFree
    /\ RestartBody
    /\ Note("restart")
    /\ UNCHANGED timers

\* the setTimeout callback calling a restartGame that keeps the score
CrashTimer_keepScore ==
    /\ timers # <<>>
    /\ RestartBody_keepScore
    /\ timers' = Tail(timers)
    /\ Note("timer")

\* the setTimeout callback, lines 193-196: alert, then restartGame
CrashTimer ==
    /\ timers # <<>>
    /\ RestartBody
    /\ timers' = Tail(timers)
    /\ Note("timer")

\* function loop(now), lines 143-152, run for one pending frame callback,
\* with dt = Math.min(40, now - lastTime) drawn from dts, while score is
\* below cap points
LoopBody(dts, cap) ==
    /\ frames > 0
    /\ \A j \in 1 .. Len(timers) : timers[j].age < MaxTimerLag
    /\ IF ~running \/ paused
       THEN /\ frames' = frames - 1
            /\ Note("skip")
            /\ UNCHANGED <<running, paused, spawnTimer, spawnInterval, speed, score,
                           keys, player, obstacles, timers>>
       ELSE /\ score < cap * SU
            /\ \E dt \in dts : Update(dt)
            /\ frames' = IF running' /\ ~paused THEN frames ELSE frames - 1
            /\ UNCHANGED <<paused, keys>>

loop == LoopBody(DTs, MaxScore)

Next ==
    \/ \E k \in KeyNames : KeyDown(k)
    \/ \E k \in KeyNames : KeyUp(k)
    \/ startGame
    \/ togglePause
    \/ restartGame
    \/ CrashTimer
    \/ loop

Spec == Init /\ [][Next]_vars

\* loop, where the frame that follows restartGame can carry a timestamp older
\* than lastTime: line 145 has no lower limit for dt
loopSkewed ==
    LoopBody(IF last \in {"restart", "timer"} THEN DTs \cup SkewDTs ELSE DTs,
             ShortScore)

NextSkew ==
    \/ \E k \in KeyNames : KeyDown(k)
    \/ \E k \in KeyNames : KeyUp(k)
    \/ startGame
    \/ togglePause
    \/ restartGame
    \/ CrashTimer
    \/ loopSkewed

SpecSkew == Init /\ [][NextSkew]_vars

\* long runs at full speed: ArrowUp is the only key, nobody pauses
loopLong == LoopBody(DTs, LongScore)

NextLong ==
    \/ KeyDown("up")
    \/ startGame
    \/ restartGame
    \/ CrashTimer
    \/ loopLong

SpecLong == Init /\ [][NextLong]_vars

\* short runs in which every pending timeout eventually fires and its alert
\* is dismissed
loopShort == LoopBody(DTs, ShortScore)

NextLive ==
    \/ \E k \in KeyNames : KeyDown(k)
    \/ \E k \in KeyNames : KeyUp(k)
    \/ startGame
    \/ togglePause
    \/ restartGame
    \/ CrashTimer
    \/ loopShort

SpecLive == Init /\ [][NextLive]_vars /\ WF_vars(CrashTimer)

\* collides on its own: any two rectangles with non-negative width and
\* height, called in both argument orders
Rects == [x : 0 .. MaxCoord, y : 0 .. MaxCoord, w : 0 .. MaxSize, h : 0 .. MaxSize]

InitCollide ==
    /\ InitGame
    /\ probe \in [a : Rects, b : Rects, ab : {FALSE}, ba : {FALSE}, called : {FALSE}]

Collide ==
    /\ ~probe.called
    /\ probe' = [probe EXCEPT !.ab = collides(probe.a, probe.b),
                              !.ba = collides(probe.b, probe.a),
                              !.called = TRUE]
    /\ UNCHANGED <<running, paused, spawnTimer, spawnInterval, speed, score,
                   keys, player, obstacles, frames, timers, last, lastDt,
                   lastPassed, restarted>>

NextCollide == Collide

SpecCollide == InitCollide /\ [][NextCollide]_vars

\* ---------------------------------------------------------- properties
Restarted == last \in {"restart", "timer"}
Crashed == ~running /\ timers # <<>>

\* C1: in every reachable state the player's x is within the track,
\* 6 <= player.x <= GAME_WIDTH - PLAYER_WIDTH - 6
PlayerWithinTrack ==
    /\ 6 * XU <= player.x
    /\ player.x <= (GAME_WIDTH - PLAYER_WIDTH - 6) * XU

\* a tick steered at full speed into the left margin and was clamped
PlayerClampedAtMargin ==
    /\ last = "tick"
    /\ player.x = 6 * XU
    /\ player.vx = -(8 * XU)

\* C2: a restart, from whatever state, leaves an empty obstacle set, score 0,
\* speed 4, the player in the centre lane at laneToX(1), spawnTimer 0,
\* running and not paused
RestartYieldsFreshRun ==
    Restarted =>
        /\ obstacles = <<>>
        /\ score = 0
        /\ speed = 4 * SPU
        /\ player.lane = 1
        /\ player.x = laneToX(1)
        /\ spawnTimer = 0
        /\ running
        /\ ~paused

\* a restart taken after a run that had scored at least 100 points
RestartAfterLongRun ==
    /\ last = "restart"
    /\ spawnInterval < 1200

\* C3: a restart resets the player's lateral velocity, player.vx = 0
RestartResetsVelocity == Restarted => player.vx = 0

\* C4: after a restart every field of the simulation state has its
\* session-start value, spawnInterval = 1200 included
RestartResetsSimulation ==
    Restarted =>
        /\ running
        /\ ~paused
        /\ spawnTimer = 0
        /\ spawnInterval = 1200
        /\ speed = 4 * SPU
        /\ score = 0

\* C5: a start action outside Idle is a no-op: it leaves running, paused, the
\* simulation state and the pending frame callbacks as they were
StartOnlyFromIdle ==
    [][(last' = "start" /\ ~Idle) => UNCHANGED <<running, paused, sim, frames>>]_vars

\* C6: while paused the simulation state does not change, until an explicit
\* resume or an explicit restart
PausedStateFrozen ==
    [][(paused /\ last' \notin {"resume", "restart"}) => UNCHANGED sim]_vars

\* C7: once crashed, the game stays not running and score, speed, obstacles
\* and the player stay as they are until a restart
CrashedUntilRestart ==
    [][(Crashed /\ ~Restarted')
          => (~running' /\ UNCHANGED <<score, speed, obstacles, player>>)]_vars

Overlaps(i) == collides(pboxOf(player), obstacles[i])

\* C8: a tick that leaves the game running leaves no obstacle overlapping the
\* player, and a tick in which a moved obstacle overlaps the player stops the
\* game: after a crash tick running is false and the obstacle is in the array
CollisionOnExactTick ==
    /\ last = "tick" => (running /\ \A i \in 1 .. Len(obstacles) : ~Overlaps(i))
    /\ last = "crash" => (~running /\ \E i \in 1 .. Len(obstacles) : Overlaps(i))

\* a tick of 40 ms has just moved an obstacle onto the player
CrashTickTaken ==
    /\ last = "crash"
    /\ lastDt = 40
    /\ ~running
    /\ \E i \in 1 .. Len(obstacles) : Overlaps(i)

\* C9: a tick that finds a collision ends there: spawnTimer and spawnInterval
\* keep their values, nothing is spawned, and score grows by the pass
\* rewards of that tick only
CrashTickEndsEarly ==
    [][last' = "crash" =>
          /\ spawnTimer' = spawnTimer
          /\ spawnInterval' = spawnInterval
          /\ Len(obstacles') = Len(obstacles) - lastPassed'
          /\ score' = score + 10 * SU * lastPassed']_vars

\* a crash tick of 40 ms, late in a spawn interval, in a run that has scored
CrashTickLate ==
    /\ last = "crash"
    /\ lastDt = 40
    /\ spawnTimer >= 600
    /\ score > 0

\* what line 182 makes of obstacle o in a tick of dt at speed spd
Moved(o, spd, dt) == [o EXCEPT !.y = @ + spd * o.speedFactor * dt]
OnRoad(o) == o.y <= (GAME_HEIGHT + 50) * YU

\* C10: no obstacle on the array is beyond GAME_HEIGHT + 50 at a tick
\* boundary, and a full tick leaves exactly the moved obstacles that are not
\* beyond it, in order, each moved once (followed by the spawned one, if
\* any), and pays 10 points for each of the others
PassedObstaclesLeaveOnce ==
    /\ [](\A i \in 1 .. Len(obstacles) : OnRoad(obstacles[i]))
    /\ [][last' = "tick" =>
            LET moved == [j \in 1 .. Len(obstacles) |->
                             Moved(obstacles[j], speed', lastDt')]
                kept == SelectSeq(moved, OnRoad)
            IN /\ \/ obstacles' = kept
                  \/ /\ Len(obstacles') = Len(kept) + 1
                     /\ SubSeq(obstacles', 1, Len(kept)) = kept
               /\ lastPassed' = Len(obstacles) - Len(kept)
               /\ score' = score + 10 * SU * (Len(obstacles) - Len(kept))
                                 + speed' * lastDt']_vars

\* a tick has just taken the oldest obstacle off the array and left a newer
\* one on it
PassedWhileAnotherOnRoad ==
    /\ last = "tick"
    /\ lastPassed = 1
    /\ spawnTimer > 0
    /\ Len(obstacles) = 1

\* C11: in every reachable state speed lies within [2, 14], whichever of
\* accelerate and brake are held (both at once included), for dt in [0, 40].
SpeedWithinLimits == 2 * SPU <= speed /\ speed <= 14 * SPU

\* a 40 ms tick with accelerate held that the upper limit cut off: speed is
\* 14 less the passive decay of that tick
SpeedCappedAtMax ==
    last = "tick" /\ lastDt = 40 /\ keys.up /\ ~keys.down /\ speed = 14 * SPU - 40

\* a step of update(0): loop ran update with now = lastTime
ZeroDeltaTick == last' \in {"tick", "crash"} /\ lastDt' = 0

\* C12 (as stated): update(0) leaves player.x, player.vx, speed, score,
\* spawnTimer, spawnInterval, the obstacles and running unchanged, whatever
\* keys are held.
ZeroDeltaIsNoOp ==
    [][ZeroDeltaTick =>
          UNCHANGED <<player, speed, score, spawnTimer, spawnInterval,
                      obstacles, running>>]_vars

\* C12 (amended): update(0) leaves speed, score, spawnTimer, spawnInterval and
\* the obstacles unchanged; the steering step of lines 157-171 still runs, and
\* running becomes false only when the player then overlaps an obstacle.
ZeroDeltaKeepsTimedState ==
    [][ZeroDeltaTick =>
          /\ UNCHANGED <<speed, score, spawnTimer, spawnInterval, obstacles>>
          /\ player' = [player EXCEPT !.vx = Steer(keys, player),
                                      !.x = ClampX(@ + Steer(keys, player))]
          /\ (running' \/ \E i \in 1 .. Len(obstacles') : Overlaps(i)')]_vars

\* update(0) ran with ArrowLeft held and an obstacle on the road: the player
\* was steered although no time had passed
ZeroDeltaTickSteers ==
    /\ last = "tick" /\ lastDt = 0
    /\ keys.left /\ ~keys.right /\ player.vx < 0
    /\ obstacles # <<>> /\ spawnTimer > 0

\* C13: across any step other than a restart (tick, start, pause, resume,
\* crash) score does not decrease, for every dt the stepper produces.
ScoreNeverDecreases == [][~Restarted' => score' >= score]_vars

\* a tick that spawned: the array holds one obstacle more than the tick's
\* splices left
Spawned == last' = "tick" /\ Len(obstacles') + lastPassed' = Len(obstacles) + 1

NotificationCarriesCrashScore ==
    [][last' = "timer" => FloorDiv(score, SU) = Head(timers).crashScore]_vars

\* a positive gap lies between the rectangles a and b, side by side or one
\* above the other
Apart(a, b) ==
    \/ \E g \in 1 .. (MaxCoord + MaxSize) : a.x + a.w + g = b.x \/ b.x + b.w + g = a.x
    \/ \E g \in 1 .. (MaxCoord + MaxSize) : a.y + a.h + g = b.y \/ b.y + b.h + g = a.y

\* C16: collides(a, b) = collides(b, a) for all rectangles with non-negative
\* width and height; a rectangle collides with an identical one; rectangles
\* with a positive horizontal or vertical gap between them do not collide.
CollidesSymmetric ==
    probe.called =>
        /\ probe.ab = probe.ba
        /\ (probe.a = probe.b => probe.ab)
        /\ (Apart(probe.a, probe.b) => ~probe.ab)

\* collides was called on two distinct rectangles that only share an edge,
\* and reported a collision
TouchingRectsCollide ==
    /\ probe.called /\ probe.ab
    /\ probe.a.x + probe.a.w = probe.b.x
    /\ probe.a.w > 0 /\ probe.b.w > 0
    /\ probe.a.y = probe.b.y /\ probe.a.h = probe.b.h /\ probe.a.h > 0

\* C17: at any time at most one frame callback (loop) is pending.
AtMostOneFramePending == frames <= 1

\* C18: at most one crash timeout is pending at a time, and when one fires
\* the game is still crashed (running = false): nobody has started or
\* restarted a session since the crash.
CrashTimerFiresInCrashedState ==
    /\ [](Len(timers) <= 1)
    /\ [][last' = "timer" => ~running]_vars

\* a run of togglePause, whatever it found
Toggled == last' \in {"toggle", "pause", "resume"}

\* C19: paused implies running, so (running, paused) is (false, false),
\* (true, false) or (true, true); togglePause while running is false changes
\* nothing; a crash happens only on ticks of a game that is not paused.
PausedOnlyWhileRunning ==
    /\ [](paused => running)
    /\ [][(Toggled /\ ~running) =>
             UNCHANGED <<running, paused, sim, keys, frames, timers>>]_vars
    /\ [][last' = "crash" => (running /\ ~paused /\ ~paused')]_vars

\* Space was pressed after a crash, before the timeout fired
ToggledWhileCrashed == last = "toggle" /\ Crashed /\ ~paused

\* C20: if every pending timeout eventually fires, a crash (running = false
\* by collision) leads to a fresh running session: running, not paused,
\* score 0, no obstacles, a frame callback scheduled.
CrashLeadsToFreshRun ==
    (last = "crash" /\ ~running)
        ~> (running /\ ~paused /\ score = 0 /\ obstacles = <<>> /\ frames > 0)

\* the timeout of a crash fired with nobody having touched the game, and
\* left a fresh running session
AutoRestartedAfterCrash ==
    /\ last = "timer" /\ timers = <<>> /\ frames = 1
    /\ running /\ ~paused /\ score = 0 /\ obstacles = <<>>

====
